---- MODULE Spec2Model ----
(***************************************************************************)
(* Model of src/src/daily_log_runner.py: main and run_with_daily_logs.     *)
(* One action per statement of the supervisor; the child process, the      *)
(* wall clock, the log directory and the interrupt signal are the          *)
(* environment and act between any two statements. Its behaviours are      *)
(* those of Spec.                                                          *)
(*                                                                         *)
(* The second half models install_service of src/src/systemd_installer.py  *)
(* (SpecInstall) and normalize_extension applied to arbitrary short        *)
(* strings (SpecNormalize).                                                *)
(*                                                                         *)
(* Lines of the child are identified by their index 1..emitted; a file is  *)
(* the sequence of line ids it holds, 0 standing for a line that was in    *)
(* the file before the run.                                                *)
(***************************************************************************)
EXTENDS Integers, Sequences, FiniteSets, TLC

\* ---- bounds of the model -------------------------------------------------
MaxLines == 2
MaxDay == 2

MaxExtLen == 3
MaxCalls == 2

\* ---- program constants ---------------------------------------------------
CANCELLED == 130
FAILURE == 1

None == "None"
\* current_log_file when it refers to no file object
NoFile == [id |-> 0, path |-> None]
Days == 1..MaxDay

VARIABLES
  cmdKind, echo, files0,
  today, dirExists,
  child, childStatus, childEOF, emitted, termSent, termTarget,
  pc, log_extension, streamOpen, nRead, target_path,
  current_log_path, current_log_file, pending,
  files, openHandles, nOpens, logBuf,
  echoBuf, echoed, message, result,
  sampled, runExit, ioFail, lifecycle,
  \* systemd_installer.py
  config, systemctlPresent, ipc, dirs, unitFile, commandsRun, printed, raised,
  \* normalize_extension applied on its own
  extArg, results

inputs   == <<cmdKind, echo, files0>>
clock    == <<today>>
childV   == <<child, childStatus, childEOF, emitted, termSent, termTarget>>
locals   == <<log_extension, nRead, target_path, current_log_path, current_log_file>>
fsV      == <<files, openHandles, nOpens, logBuf>>
outV     == <<echoBuf, echoed, message>>
runner   == <<inputs, clock, dirExists, childV, pc, locals, streamOpen,
              pending, fsV, outV, result, sampled, runExit, ioFail, lifecycle>>
installer == <<config, systemctlPresent, ipc, dirs, unitFile, commandsRun,
               printed, raised>>
normalizer == <<extArg, results>>
vars     == <<runner, installer, normalizer>>

\* ---- pure functions ------------------------------------------------------

\* str.startswith(".")
StartsWithDot(s) == Len(s) >= 1 /\ SubSeq(s, 1, 1) = "."

\* A normalisation that puts a "." in front of whatever it is given.
normalize_extension_prepend(extension) == "." \o extension

\* lines 42-45
normalize_extension(extension) ==
  IF extension = "" THEN ".log"
  ELSE IF StartsWithDot(extension) THEN extension ELSE "." \o extension

Digit(n) ==
  CASE n = 0 -> "0" [] n = 1 -> "1" [] n = 2 -> "2" [] n = 3 -> "3" [] n = 4 -> "4"
    [] n = 5 -> "5" [] n = 6 -> "6" [] n = 7 -> "7" [] n = 8 -> "8" [] n = 9 -> "9"

TwoDigits(n) == Digit((n \div 10) % 10) \o Digit(n % 10)

\* The calendar date of day number d: day 1 is 2023-12-31, day 2 is 2024-01-01, ...
DateOf(d) == IF d = 1 THEN <<2023, 12, 31>> ELSE <<2024, 1, d - 1>>

\* datetime.date.isoformat(): YYYY-MM-DD, zero padded
isoformat(date) ==
  TwoDigits(date[1] \div 100) \o TwoDigits(date[1] % 100) \o "-"
    \o TwoDigits(date[2]) \o "-" \o TwoDigits(date[3])

log_dir == "/tmp/logs"
log_prefix == "job"

daily_log_path(dir, prefix, extension, d) ==
  dir \o "/" \o prefix \o "-" \o isoformat(DateOf(d)) \o extension

RawExts == {"", "log", ".txt"}
Paths == {daily_log_path(log_dir, log_prefix, normalize_extension(x), d) :
            x \in RawExts, d \in Days}

\* What a log file holds before the run: nothing, or a line of an earlier run.
OldContents == {<<>>, <<0>>}

\* The installer is another program: while the log runner runs it is not there.
NoConfig == [service_name |-> None, user_service |-> FALSE,
             enable_now |-> FALSE, dry_run |-> FALSE]
NoRaise == [exc |-> None, line |-> 0]

InstallerAbsent ==
  /\ config = NoConfig
  /\ systemctlPresent = FALSE
  /\ ipc = "absent"
  /\ dirs = {}
  /\ unitFile = None
  /\ commandsRun = <<>>
  /\ printed = <<>>
  /\ raised = NoRaise

\* No call of normalize_extension on its own is being looked at.
NormalizerAbsent == extArg = None /\ results = <<>>

\* ---- initial state: before main is entered -------------------------------
Init ==
  /\ InstallerAbsent
  /\ NormalizerAbsent
  /\ cmdKind \in {"ok", "missing", "noperm"}
  /\ echo \in BOOLEAN
  /\ \E old \in OldContents : files0 = [p \in Paths |-> old]
  /\ today = 1
  /\ dirExists \in BOOLEAN
  /\ child = "none" /\ childStatus = 0 /\ childEOF = FALSE /\ emitted = 0
  /\ termSent = FALSE
  /\ termTarget = None
  /\ pc = "main"
  /\ log_extension = None
  /\ streamOpen = FALSE
  /\ nRead = 0
  /\ target_path = None
  /\ current_log_path = None
  /\ current_log_file = NoFile
  /\ pending = [kind |-> "none", val |-> 0, exc |-> None]
  /\ files = files0
  /\ openHandles = {}
  /\ nOpens = 0
  /\ logBuf = <<>>
  /\ echoBuf = <<>> /\ echoed = <<>> /\ message = None
  /\ result = [kind |-> "none", code |-> 0]
  /\ sampled = <<>>
  /\ runExit = "none"
  /\ ioFail = None
  /\ lifecycle = <<"NotStarted">>

\* ---- control flow ---------------------------------------------------------
KI == "KeyboardInterrupt"
FNF == "FileNotFoundError"
OSE == "OSError"

NoPending == [kind |-> "none", val |-> 0, exc |-> None]
ReturnOf(v) == [kind |-> "return", val |-> v, exc |-> None]
RaiseOf(e) == [kind |-> "raise", val |-> 0, exc |-> e]

\* A try statement whose body also holds the two closing statements.
Region_finallyInTry(p) ==
  CASE p \in {"main", "M129", "M132", "done"} -> "main"
    [] p \in {"L66", "L68", "L76"} -> "pre"
    [] p \in {"L83", "L84", "L85", "L88", "L89", "L91", "L92", "L95", "L96", "L98",
               "L105", "L107"} -> "try"
    [] p \in {"L100", "L101", "L102", "L103"} -> "handler"

\* Where a statement stands relative to the try statement of lines 79-108.
Region(p) ==
  CASE p \in {"main", "M129", "M132", "done"} -> "main"
    [] p \in {"L66", "L68", "L76"} -> "pre"
    [] p \in {"L83", "L84", "L85", "L88", "L89", "L91", "L92", "L95", "L96", "L98"} -> "try"
    [] p \in {"L100", "L101", "L102", "L103"} -> "handler"
    [] p \in {"L105", "L107"} -> "finally"

\* The lifecycle state the supervised run is in: the last one it entered.
life == lifecycle[Len(lifecycle)]

Goto(p) == pc' = p /\ UNCHANGED <<pending, result, runExit, lifecycle>>

\* main, lines 121-134: what the caller does with an exception leaving
\* run_with_daily_logs. KeyboardInterrupt is no Exception: neither clause
\* catches it and it leaves main.
LeaveByRaise(e) ==
  /\ runExit' = "raised"
  /\ pending' = RaiseOf(e)
  /\ pc' = IF e = FNF THEN "M129" ELSE IF e = KI THEN "done" ELSE "M132"
  /\ result' = IF e = KI THEN [kind |-> "escaped", code |-> 0] ELSE result
  /\ UNCHANGED lifecycle

\* main, line 122: the value run_with_daily_logs returns is main's.
LeaveByReturn(v) ==
  /\ runExit' = "returned"
  /\ pc' = "done"
  /\ result' = [kind |-> "returned", code |-> v]
  /\ UNCHANGED <<pending, lifecycle>>

\* A try statement with one more clause, "except OSError: continue": a failure
\* in the loop body is dropped and the loop goes on with the next line.
Raise_swallow(e) ==
  CASE Region(pc) = "try" ->
         IF e = KI
         THEN /\ pc' = "L100"
              /\ lifecycle' = Append(lifecycle, "Interrupted")
              /\ UNCHANGED <<pending, result, runExit>>
         ELSE Goto("L83")
    [] Region(pc) = "handler" ->
         /\ pc' = "L105"
         /\ pending' = RaiseOf(e)
         /\ UNCHANGED <<result, runExit, lifecycle>>
    [] Region(pc) \in {"pre", "finally"} -> LeaveByRaise(e)
    [] Region(pc) = "main" ->
         /\ pc' = "done"
         /\ result' = [kind |-> "escaped", code |-> 0]
         /\ UNCHANGED <<pending, runExit, lifecycle>>

\* An exception e raised by the statement at pc.
Raise(e) ==
  CASE Region(pc) = "try" ->
         IF e = KI
         THEN /\ pc' = "L100"
              /\ lifecycle' = Append(lifecycle, "Interrupted")
              /\ UNCHANGED <<pending, result, runExit>>
         ELSE /\ pc' = "L105"
              /\ pending' = RaiseOf(e)
              /\ UNCHANGED <<result, runExit, lifecycle>>
    [] Region(pc) = "handler" ->
         /\ pc' = "L105"
         /\ pending' = RaiseOf(e)
         /\ UNCHANGED <<result, runExit, lifecycle>>
    [] Region(pc) \in {"pre", "finally"} -> LeaveByRaise(e)
    [] Region(pc) = "main" ->
         /\ pc' = "done"
         /\ result' = [kind |-> "escaped", code |-> 0]
         /\ UNCHANGED <<pending, runExit, lifecycle>>

Fail(op) == ioFail' = IF ioFail = None THEN op ELSE ioFail

\* ---- main and the statements before the try --------------------------------

\* main, lines 112-122 (the command is non-empty); args.log_extension is any
\* of RawExts
MainStart ==
  /\ pc = "main"
  /\ \E raw \in RawExts : log_extension' = normalize_extension(raw)
  /\ Goto("L66")
  /\ UNCHANGED <<installer, normalizer, inputs, clock, dirExists, childV, streamOpen, nRead,
                 target_path, current_log_path, current_log_file, fsV, outV,
                 sampled, ioFail>>

\* line 66: log_dir.mkdir(parents=True, exist_ok=True)
Mkdir ==
  /\ pc = "L66"
  /\ \/ /\ dirExists' = TRUE
        /\ Goto("L68")
        /\ UNCHANGED ioFail
     \/ /\ ~dirExists
        /\ Raise(OSE)
        /\ Fail("mkdir")
        /\ UNCHANGED dirExists
  /\ UNCHANGED <<installer, normalizer, inputs, clock, childV, locals, streamOpen, fsV, outV, sampled>>

\* lines 68-74: subprocess.Popen(command, stdout=PIPE, stderr=STDOUT, ...)
Popen ==
  /\ pc = "L68"
  /\ IF cmdKind = "ok"
     THEN /\ child' = "running"
          /\ streamOpen' = TRUE
          /\ pc' = "L76"
          /\ lifecycle' = Append(lifecycle, "Running")
          /\ UNCHANGED <<pending, result, runExit>>
     ELSE /\ Raise(IF cmdKind = "missing" THEN FNF ELSE OSE)
          /\ UNCHANGED <<child, streamOpen>>
  /\ UNCHANGED <<installer, normalizer, inputs, clock, dirExists, childStatus, childEOF, emitted,
                 termSent, termTarget, locals, fsV, outV, sampled, ioFail>>

\* lines 76-81: both locals start as None; process.stdout is a pipe, never None
EnterTry ==
  /\ pc = "L76"
  /\ current_log_path' = None
  /\ current_log_file' = NoFile
  /\ Goto("L83")
  /\ UNCHANGED <<installer, normalizer, inputs, clock, dirExists, childV, log_extension, nRead,
                 target_path, streamOpen, fsV, outV, sampled, ioFail>>

\* ---- the read loop, lines 83-96 ---------------------------------------------

\* The handle current_log_file refers to, as the record the open call returned.
Handle(id, path) == [id |-> id, path |-> path]
IsOpen(h) == h \in openHandles

\* A close that leaves the handle open.
Closed_leak(h) == openHandles

\* TextIO.close(): a handle already closed stays closed; an open one is removed
\* from the open handles.
Closed(h) == openHandles \ {h}

\* open(path, "w"): the file is emptied.
OpenAppend_truncate(old) == <<>>

\* open(path, "a"): the contents found in the file are kept and writes go to its end.
OpenAppend(old) == old

\* A writer that opens the target path again for every line.
NeedsRotation_everyLine(target, current) == TRUE

\* A rotation test that only tells "no file yet" from "some file".
NeedsRotation_firstOnly(target, current) == current = None

\* line 85: target_path != current_log_path
NeedsRotation(target, current) == target # current

\* A write that takes the line and puts nothing in the buffer.
Buffered_drop(buf, line) == buf

\* line 91: write(line) adds the line to the end of the handle's buffer
Buffered(buf, line) == Append(buf, line)

\* A flush that empties the buffer without writing it to the file.
Flushed_discard(content, buf) == content

\* A flush that puts the buffer at the start of the file.
Flushed_front(content, buf) == buf \o content

\* line 92: flush() moves the buffer to the end of the file
Flushed(content, buf) == content \o buf

\* line 83: the next line of process.stdout, or the end of the stream
ReadLine ==
  /\ pc = "L83"
  /\ \/ /\ nRead < emitted
        /\ nRead' = nRead + 1
        /\ Goto("L84")
     \/ /\ nRead = emitted
        /\ childEOF
        /\ pc' = "L98"
        /\ lifecycle' = Append(lifecycle, "StreamClosed")
        /\ UNCHANGED <<nRead, pending, result, runExit>>
  /\ UNCHANGED <<installer, normalizer, inputs, clock, dirExists, childV, log_extension,
                 target_path, current_log_path, current_log_file, streamOpen, fsV,
                 outV, sampled, ioFail>>

\* line 84: target_path = daily_log_path(log_dir, log_prefix, log_extension)
SamplePath ==
  /\ pc = "L84"
  /\ target_path' = daily_log_path(log_dir, log_prefix, log_extension, today)
  /\ sampled' = Append(sampled, today)
  /\ Goto("L85")
  /\ UNCHANGED <<installer, normalizer, inputs, clock, dirExists, childV, log_extension, nRead,
                 current_log_path, current_log_file, streamOpen, fsV, outV, ioFail>>

\* lines 85-87: on a new target path the handle held is closed. Its buffer is
\* empty here: the flush of line 92 succeeded before the loop came back.
CloseOld ==
  /\ pc = "L85"
  /\ IF NeedsRotation(target_path, current_log_path)
     THEN /\ openHandles' = IF current_log_file # NoFile
                            THEN Closed(current_log_file) ELSE openHandles
          /\ Goto("L88")
     ELSE /\ Goto("L91")
          /\ UNCHANGED openHandles
  /\ UNCHANGED <<installer, normalizer, inputs, clock, dirExists, childV, locals, streamOpen,
                 files, nOpens, logBuf, outV, sampled, ioFail>>

\* line 88: current_log_file = target_path.open("a", encoding="utf-8")
OpenLog ==
  /\ pc = "L88"
  /\ \/ /\ dirExists
        /\ nOpens' = nOpens + 1
        /\ current_log_file' = Handle(nOpens + 1, target_path)
        /\ openHandles' = openHandles \cup {Handle(nOpens + 1, target_path)}
        /\ files' = [files EXCEPT ![target_path] = OpenAppend(@)]
        /\ Goto("L89")
        /\ UNCHANGED ioFail
     \/ /\ Raise(IF dirExists THEN OSE ELSE FNF)
        /\ Fail("open")
        /\ UNCHANGED <<nOpens, current_log_file, openHandles, files>>
  /\ UNCHANGED <<installer, normalizer, inputs, clock, dirExists, childV, log_extension, nRead,
                 target_path, current_log_path, streamOpen, logBuf, outV, sampled>>

\* line 89: current_log_path = target_path
AssignPath ==
  /\ pc = "L89"
  /\ current_log_path' = target_path
  /\ Goto("L91")
  /\ UNCHANGED <<installer, normalizer, inputs, clock, dirExists, childV, log_extension, nRead,
                 target_path, current_log_file, streamOpen, fsV, outV, sampled, ioFail>>

\* line 91: current_log_file.write(line): the line goes to the handle's buffer
WriteLine ==
  /\ pc = "L91"
  /\ \/ /\ logBuf' = Buffered(logBuf, nRead)
        /\ Goto("L92")
        /\ UNCHANGED ioFail
     \/ /\ Raise(OSE)
        /\ Fail("write")
        /\ UNCHANGED logBuf
  /\ UNCHANGED <<installer, normalizer, inputs, clock, dirExists, childV, locals, streamOpen,
                 files, openHandles, nOpens, outV, sampled>>

\* line 92: current_log_file.flush(): the buffer goes to the end of the file; a
\* flush that fails leaves the buffer as it was
FlushLine ==
  /\ pc = "L92"
  /\ \/ /\ files' = [files EXCEPT ![current_log_file.path] = Flushed(@, logBuf)]
        /\ logBuf' = <<>>
        /\ Goto(IF echo THEN "L95" ELSE "L83")
        /\ UNCHANGED ioFail
     \/ /\ Raise(OSE)
        /\ Fail("flush")
        /\ UNCHANGED <<files, logBuf>>
  /\ UNCHANGED <<installer, normalizer, inputs, clock, dirExists, childV, locals, streamOpen,
                 openHandles, nOpens, outV, sampled>>

\* lines 94-95: sys.stdout.write(line)
EchoWrite ==
  /\ pc = "L95"
  /\ \/ /\ echoBuf' = Append(echoBuf, nRead)
        /\ Goto("L96")
        /\ UNCHANGED ioFail
     \/ /\ Raise(OSE)
        /\ Fail("echo")
        /\ UNCHANGED echoBuf
  /\ UNCHANGED <<installer, normalizer, inputs, clock, dirExists, childV, locals, streamOpen,
                 fsV, echoed, message, sampled>>

\* line 96: sys.stdout.flush()
EchoFlush ==
  /\ pc = "L96"
  /\ \/ /\ echoed' = echoed \o echoBuf
        /\ echoBuf' = <<>>
        /\ Goto("L83")
        /\ UNCHANGED ioFail
     \/ /\ Raise(OSE)
        /\ Fail("echo")
        /\ UNCHANGED <<echoed, echoBuf>>
  /\ UNCHANGED <<installer, normalizer, inputs, clock, dirExists, childV, locals, streamOpen,
                 fsV, message, sampled>>

\* ---- the end of the stream, the handler and the finally clause --------------

\* A wait whose value is "success" whatever the child's status.
WaitResult_zero(status) == 0

\* line 98: the value process.wait() returns is the child's exit status
WaitResult(status) == status

\* A handler that terminates the child without looking at its state.
StillRunning_always(c) == TRUE

\* line 100: process.poll() is None
StillRunning(c) == c = "running"

\* line 98: return process.wait(): blocks until the child has exited, reaps it
\* and returns its status
WaitChild ==
  /\ pc = "L98"
  /\ child = "exited"
  /\ child' = "reaped"
  /\ pending' = ReturnOf(WaitResult(childStatus))
  /\ lifecycle' = Append(lifecycle, "WaitedExit")
  /\ pc' = "L105"
  /\ UNCHANGED <<installer, normalizer, inputs, clock, dirExists, childStatus, childEOF, emitted,
                 termSent, termTarget, locals, streamOpen, fsV, outV, result, sampled, runExit, ioFail>>

\* lines 99-100: except KeyboardInterrupt: if process.poll() is None. poll reaps
\* a child that has exited.
PollChild ==
  /\ pc = "L100"
  /\ IF StillRunning(child)
     THEN Goto("L101") /\ UNCHANGED child
     ELSE Goto("L103") /\ child' = "reaped"
  /\ UNCHANGED <<installer, normalizer, inputs, clock, dirExists, childStatus, childEOF, emitted,
                 termSent, termTarget, locals, streamOpen, fsV, outV, sampled, ioFail>>

\* A handler without line 101: it waits for the child without asking it to end.
Terminate_noRequest ==
  /\ pc = "L101"
  /\ Goto("L102")
  /\ UNCHANGED <<installer, normalizer, inputs, clock, dirExists, childV, locals, streamOpen,
                 fsV, outV, sampled, ioFail>>

\* line 101: process.terminate(): Popen.send_signal polls first and signals only
\* a child that has not exited
Terminate ==
  /\ pc = "L101"
  /\ IF StillRunning(child)
     THEN termSent' = TRUE /\ termTarget' = child /\ UNCHANGED child
     ELSE child' = "reaped" /\ UNCHANGED <<termSent, termTarget>>
  /\ Goto("L102")
  /\ UNCHANGED <<installer, normalizer, inputs, clock, dirExists, childStatus, childEOF, emitted,
                 locals, streamOpen, fsV, outV, sampled, ioFail>>

\* line 102: process.wait()
WaitTerminated ==
  /\ pc = "L102"
  /\ child \in {"exited", "reaped"}
  /\ child' = "reaped"
  /\ Goto("L103")
  /\ UNCHANGED <<installer, normalizer, inputs, clock, dirExists, childStatus, childEOF, emitted,
                 termSent, termTarget, locals, streamOpen, fsV, outV, sampled, ioFail>>

\* line 103: return 130
ReturnCancelled ==
  /\ pc = "L103"
  /\ pending' = ReturnOf(CANCELLED)
  /\ lifecycle' = Append(lifecycle, "Terminated")
  /\ pc' = "L105"
  /\ UNCHANGED <<installer, normalizer, inputs, clock, dirExists, childV, locals, streamOpen,
                 fsV, outV, result, sampled, runExit, ioFail>>

\* lines 104-106: finally: process.stdout.close()
CloseStream ==
  /\ pc = "L105"
  /\ streamOpen' = FALSE
  /\ Goto("L107")
  /\ UNCHANGED <<installer, normalizer, inputs, clock, dirExists, childV, locals, fsV, outV,
                 sampled, ioFail>>

\* The finally clause is left the way it was entered: by the return or the raise
\* that is pending.
LeavePending ==
  IF pending.kind = "return" THEN LeaveByReturn(pending.val) ELSE LeaveByRaise(pending.exc)

\* lines 107-108: if current_log_file: current_log_file.close(). close flushes
\* what the buffer holds; when that flush fails the handle is closed all the
\* same, the buffered line is lost and the error replaces what was pending.
CloseLog ==
  /\ pc = "L107"
  /\ \/ /\ IF current_log_file # NoFile /\ IsOpen(current_log_file)
           THEN /\ files' = [files EXCEPT ![current_log_file.path] = Flushed(@, logBuf)]
                /\ openHandles' = Closed(current_log_file)
           ELSE UNCHANGED <<files, openHandles>>
        /\ logBuf' = <<>>
        /\ LeavePending
        /\ UNCHANGED ioFail
     \/ /\ current_log_file # NoFile
        /\ IsOpen(current_log_file)
        /\ logBuf # <<>>
        /\ logBuf' = <<>>
        /\ openHandles' = Closed(current_log_file)
        /\ LeaveByRaise(OSE)
        /\ Fail("close")
        /\ UNCHANGED files
  /\ UNCHANGED <<installer, normalizer, inputs, clock, dirExists, childV, locals, streamOpen,
                 nOpens, outV, sampled>>

\* main, lines 129-131: except FileNotFoundError: print "Command not found"; return 1
ReportNotFound ==
  /\ pc = "M129"
  /\ message' = "Command not found"
  /\ result' = [kind |-> "returned", code |-> FAILURE]
  /\ pc' = "done"
  /\ UNCHANGED <<installer, normalizer, inputs, clock, dirExists, childV, locals, streamOpen,
                 pending, fsV, echoBuf, echoed, sampled, runExit, ioFail, lifecycle>>

\* main, lines 132-134: except Exception: print "Error"; return 1
ReportError ==
  /\ pc = "M132"
  /\ message' = "Error"
  /\ result' = [kind |-> "returned", code |-> FAILURE]
  /\ pc' = "done"
  /\ UNCHANGED <<installer, normalizer, inputs, clock, dirExists, childV, locals, streamOpen,
                 pending, fsV, echoBuf, echoed, sampled, runExit, ioFail, lifecycle>>

\* ---- the environment --------------------------------------------------------

Active == pc # "done"

\* SIGINT: Python raises KeyboardInterrupt in the main thread at the statement
\* it is executing, wherever that is.
Interrupt ==
  /\ Active
  /\ Raise(KI)
  /\ UNCHANGED <<installer, normalizer, inputs, clock, dirExists, childV, locals, streamOpen, fsV, outV,
                 sampled, ioFail>>

\* The child writes one more line to the pipe.
ChildEmit ==
  /\ Active
  /\ child = "running" /\ ~childEOF /\ streamOpen
  /\ emitted < MaxLines
  /\ emitted' = emitted + 1
  /\ UNCHANGED <<installer, normalizer, inputs, clock, dirExists, child, childStatus, childEOF,
                 termSent, termTarget, pc, locals, streamOpen, pending, fsV, outV, result, sampled,
                 runExit, ioFail, lifecycle>>

\* The child closes its end of the pipe and keeps running.
ChildCloseStream ==
  /\ Active
  /\ child = "running" /\ ~childEOF
  /\ childEOF' = TRUE
  /\ UNCHANGED <<installer, normalizer, inputs, clock, dirExists, child, childStatus, emitted,
                 termSent, termTarget, pc, locals, streamOpen, pending, fsV, outV, result, sampled,
                 runExit, ioFail, lifecycle>>

\* A termination request that is not handled ends the child with status -SIGTERM.
ExitStatuses == {0, 3} \cup (IF termSent THEN {-15} ELSE {})

\* The child exits; its end of the pipe closes with it.
ChildExit ==
  /\ Active
  /\ child = "running"
  /\ \E s \in ExitStatuses : childStatus' = s
  /\ child' = "exited"
  /\ childEOF' = TRUE
  /\ UNCHANGED <<installer, normalizer, inputs, clock, dirExists, emitted, termSent, termTarget, pc, locals,
                 streamOpen, pending, fsV, outV, result, sampled, runExit, ioFail, lifecycle>>

\* The local calendar date changes (midnight, or the clock is set).
Tick ==
  /\ Active
  /\ \E d \in Days \ {today} : today' = d
  /\ UNCHANGED <<installer, normalizer, inputs, dirExists, childV, pc, locals, streamOpen,
                 pending, fsV, outV, result, sampled, runExit, ioFail, lifecycle>>

\* Something else removes the log directory. The program looks at the
\* directory only in mkdir (line 66, which creates it again) and in open (line
\* 88), so a removal at any moment after line 66 is the removal just before
\* the next open.
RemoveDir ==
  /\ pc = "L88"
  /\ dirExists
  /\ dirExists' = FALSE
  /\ UNCHANGED <<installer, normalizer, inputs, clock, childV, pc, locals, streamOpen, pending,
                 fsV, outV, result, sampled, runExit, ioFail, lifecycle>>

Next ==
  \/ MainStart \/ Mkdir \/ Popen \/ EnterTry
  \/ ReadLine \/ SamplePath \/ CloseOld \/ OpenLog \/ AssignPath
  \/ WriteLine \/ FlushLine \/ EchoWrite \/ EchoFlush
  \/ WaitChild \/ PollChild \/ Terminate \/ WaitTerminated \/ ReturnCancelled
  \/ CloseStream \/ CloseLog \/ ReportNotFound \/ ReportError
  \/ Interrupt \/ ChildEmit \/ ChildCloseStream \/ ChildExit \/ Tick \/ RemoveDir

Spec == Init /\ [][Next]_vars

\* The statements of main and run_with_daily_logs, as opposed to what the
\* child, the clock, the directory and the signal do.
Supervisor ==
  \/ MainStart \/ Mkdir \/ Popen \/ EnterTry
  \/ ReadLine \/ SamplePath \/ CloseOld \/ OpenLog \/ AssignPath
  \/ WriteLine \/ FlushLine \/ EchoWrite \/ EchoFlush
  \/ WaitChild \/ PollChild \/ Terminate \/ WaitTerminated \/ ReturnCancelled
  \/ CloseStream \/ CloseLog \/ ReportNotFound \/ ReportError

\* The interpreter goes on: a statement that can be executed is executed, and a
\* blocking call (the read of line 83, the waits of lines 98 and 102) returns
\* once what it waits for is there. A child that was asked to terminate exits.
\* Nothing is assumed about the child writing more output or closing its stream.
FairSpec ==
  /\ Init /\ [][Next]_vars
  /\ WF_vars(Supervisor)
  /\ WF_vars(termSent /\ ChildExit)

\* ---- what the claims are stated with ------------------------------------------

IsNew(x) == x > 0
UpTo(n) == [i \in 1..n |-> i]

\* The lines of this run found in the file at path p, in the order they have there.
NewLines(p) == SelectSeq(files[p], IsNew)

\* What was added to the file at p since the run began.
Appended(p) ==
  IF Len(files[p]) >= Len(files0[p])
  THEN SubSeq(files[p], Len(files0[p]) + 1, Len(files[p]))
  ELSE <<"truncated">>

\* How many times line k stands in the file at p, and in all the files.
RECURSIVE CountIn(_, _)
CountIn(k, s) == IF s = <<>> THEN 0 ELSE (IF Head(s) = k THEN 1 ELSE 0) + CountIn(k, Tail(s))

RECURSIVE SumOver(_, _)
SumOver(k, ps) ==
  IF ps = {} THEN 0
  ELSE LET p == CHOOSE q \in ps : TRUE IN CountIn(k, files[p]) + SumOver(k, ps \ {p})

Copies(k) == SumOver(k, Paths)

\* The file name the naming convention gives, written out for each day of the model.
IsoLiteral(d) ==
  CASE d = 1 -> "2023-12-31" [] d = 2 -> "2024-01-01" [] d = 3 -> "2024-01-02"
    [] d = 4 -> "2024-01-03" [] d = 5 -> "2024-01-04"

NamedFor(d) == "/tmp/logs/job-" \o IsoLiteral(d) \o log_extension

ReturnedNormally == runExit = "returned" /\ life = "WaitedExit"

\* The date was the same every time the run looked at it (line 84).
SameDay == \A k \in 1..Len(sampled) : sampled[k] = sampled[1]

\* No KeyboardInterrupt was raised in the run.
NoInterrupt ==
  /\ \A i \in 1..Len(lifecycle) : lifecycle[i] # "Interrupted"
  /\ pending.exc # KI
  /\ result.kind # "escaped"

\* ---- C1 ------------------------------------------------------------------------
\* C1: when the run returns the child's status and the date was the same at
\* every line, what was appended to that day's file is exactly lines 1..N in the
\* order read, the contents it had before are still in front of them, and no
\* other file has changed.
C1_SameDayExact ==
  (ReturnedNormally /\ SameDay) =>
    /\ nRead = emitted
    /\ emitted = 0 => files = files0
    /\ emitted > 0 =>
         /\ Appended(NamedFor(sampled[1])) = UpTo(emitted)
         /\ \A p \in Paths \ {NamedFor(sampled[1])} : files[p] = files0[p]

C1_Witness ==
  /\ ReturnedNormally /\ SameDay
  /\ emitted >= 2
  /\ files0[NamedFor(sampled[1])] # <<>>
  /\ Appended(NamedFor(sampled[1])) = UpTo(emitted)

\* ---- C2 ------------------------------------------------------------------------
\* Line k stands in the file at p.
LineIn(k, p) == CountIn(k, files[p]) > 0

\* C2: every line of the run that stands in a file stands in the file named
\* <prefix>-<date><extension> for the date sampled for that line, and in no
\* other; so when the date changes once, between line i and line i+1, lines
\* 1..i are only in the earlier day's file and lines i+1..N only in the later
\* day's, each once.
C2_RoutedByDate ==
  /\ \A p \in Paths : \A k \in 1..MaxLines :
       LineIn(k, p) => (k <= Len(sampled) /\ p = NamedFor(sampled[k]))
  /\ \A k \in 1..MaxLines : Copies(k) <= 1
  /\ \A i \in 1..MaxLines : \A d1, d2 \in Days :
       ( /\ ReturnedNormally /\ d1 # d2 /\ i < emitted
         /\ \A k \in 1..emitted : sampled[k] = IF k <= i THEN d1 ELSE d2 )
       => /\ NewLines(NamedFor(d1)) = UpTo(i)
          /\ NewLines(NamedFor(d2)) = [j \in 1..(emitted - i) |-> i + j]

C2_Witness ==
  /\ ReturnedNormally /\ emitted >= 2
  /\ sampled[1] = 1 /\ sampled[emitted] = 2 /\ sampled[emitted - 1] = 1
  /\ NewLines(NamedFor(1)) = UpTo(emitted - 1)
  /\ NewLines(NamedFor(2)) = <<emitted>>

\* ---- C3 ------------------------------------------------------------------------
\* main has returned a status without reporting an error.
EndedUnreported == pc = "done" /\ result.kind = "returned" /\ message = None

\* C3: when the run has ended with the child's own status or with 130 (no error
\* reported), every line the child emitted stands in exactly one file, once.
C3_NoLineDropped ==
  EndedUnreported => \A k \in 1..emitted : Copies(k) = 1

\* ---- C4 ------------------------------------------------------------------------
\* C4: on a stream end with no interrupt and no I/O failure, by the time the
\* return value exists the child has exited and been waited for, every line the
\* child emitted has been read and stands in a file, and the value - pending
\* through the finally clause and then returned by main - is the child's exit
\* status.
C4_StatusUnchanged ==
  (life = "WaitedExit" /\ NoInterrupt /\ ioFail = None) =>
    /\ child = "reaped"
    /\ nRead = emitted
    /\ logBuf = <<>>
    /\ \A k \in 1..nRead : Copies(k) = 1
    /\ pc # "done" => pending = ReturnOf(childStatus)
    /\ pc = "done" => result = [kind |-> "returned", code |-> childStatus]

C4_Witness ==
  /\ pc = "done" /\ life = "WaitedExit" /\ NoInterrupt /\ ioFail = None
  /\ childStatus = 3 /\ result = [kind |-> "returned", code |-> 3]
  /\ nRead >= 1

\* ---- C5 ------------------------------------------------------------------------
\* C5: in the handler of an interrupt, a child that the poll finds running is
\* sent a termination request and then waited for; the request only ever goes to
\* a running child; once the handler has finished the child has been reaped,
\* and a run that returns from the handler returns 130 whatever status the
\* child ended with.
C5_Cancellation ==
  /\ termTarget \in {None, "running"}
  /\ termSent => life \in {"Interrupted", "Terminated"}
  /\ pc = "L102" => (termSent \/ child = "reaped")
  /\ pc = "L103" => child = "reaped"
  /\ life = "Terminated" => child = "reaped"
  /\ (runExit = "returned" /\ life = "Terminated") =>
       result = [kind |-> "returned", code |-> CANCELLED]

C5_Witness ==
  /\ pc = "done" /\ runExit = "returned" /\ life = "Terminated"
  /\ termSent /\ child = "reaped" /\ childStatus = 3
  /\ result.code = CANCELLED

\* ---- C6 ------------------------------------------------------------------------
Spawned == child # "none"
LeftRun == runExit # "none"

\* C6: once control has left run_with_daily_logs after the child was spawned,
\* the child's output stream and every log file handle that was opened are closed.
C6_HandlesReleased ==
  (LeftRun /\ Spawned) => (~streamOpen /\ openHandles = {})

\* ---- C7 ------------------------------------------------------------------------
\* Popen raised FileNotFoundError: the executable does not exist.
LaunchFailed == ~Spawned /\ runExit = "raised" /\ pending = RaiseOf(FNF)

\* C7: when the executable does not exist and main returns, it returns 1 with
\* the launch-failure report and no log file was opened or written; and the
\* launch-failure report is printed only when the child failed to start.
C7_LaunchFailureReport ==
  /\ (LaunchFailed /\ result.kind = "returned") =>
       /\ result.code = FAILURE
       /\ message = "Command not found"
       /\ nOpens = 0
       /\ files = files0
  /\ message = "Command not found" => (~Spawned /\ ioFail = None)

\* ---- C8 ------------------------------------------------------------------------
LoopPcs == {"L83", "L84", "L85", "L88", "L89", "L91", "L92", "L95", "L96", "L98"}

C8_State ==
  ioFail # None =>
    /\ pc \notin LoopPcs
    /\ runExit # "returned"
    /\ nRead <= emitted
    /\ \A k \in 1..MaxLines : (k > nRead => Copies(k) = 0) /\ Copies(k) <= 1
    /\ result.kind = "returned" => (result.code = FAILURE /\ message # None)
    /\ (runExit = "raised" /\ NoInterrupt) => pending.exc \in {OSE, FNF}

C8_Step ==
  ioFail # None =>
    /\ nRead' = nRead
    /\ sampled' = sampled
    /\ nOpens' = nOpens
    /\ \A p \in Paths :
         \/ files'[p] = files[p]
         \/ /\ pc = "L107" /\ ioFail \in {"flush", "write", "echo"}
            /\ files'[p] = files[p] \o <<nRead>>
            /\ Copies(nRead) = 0

\* C8: once creating the directory, opening the file, writing, flushing or
\* echoing has failed at line k, the loop is left for good: no further line is
\* read, sampled or opened for, no line after k reaches a file, what the files
\* held stays as it was (line k itself can still arrive once, when close flushes
\* the buffer a failed flush left), the run never returns a status, and main,
\* when it returns, returns 1 with a message printed.
C8_FailurePropagates == [](C8_State) /\ [][C8_Step]_vars

C8_Witness ==
  /\ ioFail = "flush" /\ pc = "done" /\ nRead = 2
  /\ result = [kind |-> "returned", code |-> FAILURE] /\ message = "Error"
  /\ Copies(1) = 1 /\ Copies(2) = 0

\* ---- C9 ------------------------------------------------------------------------
Consecutive(seq) == {<<seq[i], seq[i + 1]>> : i \in 1..(Len(seq) - 1)}

ClaimedTransitions ==
  { <<"NotStarted", "Running">>, <<"Running", "StreamClosed">>,
    <<"StreamClosed", "WaitedExit">>, <<"Running", "Interrupted">>,
    <<"Interrupted", "Terminated">> }

\* C9 as stated: the lifecycle only takes the five transitions of the state machine.
C9_OnlyClaimedTransitions == Consecutive(lifecycle) \subseteq ClaimedTransitions

\* C9 as amended: the five transitions and StreamClosed -> Interrupted, taken
\* when the interrupt arrives during the final wait of line 98; nothing leaves
\* WaitedExit or Terminated and nothing goes backwards.
C9_TransitionsWithLateInterrupt ==
  Consecutive(lifecycle) \subseteq
    (ClaimedTransitions \cup {<<"StreamClosed", "Interrupted">>})

C9_Witness ==
  lifecycle = <<"NotStarted", "Running", "StreamClosed", "Interrupted", "Terminated">>

\* ---- C10 -----------------------------------------------------------------------
\* C10: once control has left run_with_daily_logs after the child was spawned,
\* by return or by a raised error, the child has been reaped.
C10_ChildReaped ==
  ( /\ Spawned
    /\ \/ runExit = "returned"
       \/ runExit = "raised" /\ pending.exc \in {OSE, FNF} )
  => child = "reaped"

\* ---- C11 -----------------------------------------------------------------------
\* C11: whenever main has ended it has returned an exit code - the child's own
\* status after a normal completion, 130 after an interruption, or 1 with a
\* message printed - and no exception has left main.
C11_MainAlwaysReturns ==
  pc = "done" =>
    /\ result.kind = "returned"
    /\ \/ result.code = childStatus /\ life = "WaitedExit" /\ message = None
       \/ result.code = CANCELLED /\ life = "Terminated" /\ message = None
       \/ result.code = FAILURE /\ message # None

\* ---- C12 -----------------------------------------------------------------------
\* The number of lines the rotation test of line 85 has been executed for.
Routed == IF pc = "L85" THEN Len(sampled) - 1 ELSE Len(sampled)

InReadLoop == Region(pc) = "try"

\* C12 as stated: in every state of the read loop at most one log handle is
\* open, an open handle is on the path computed for the line routed last, and
\* current_log_path is the path of the open handle current_log_file refers to.
C12_HandleAndPathAgree ==
  InReadLoop =>
    /\ Cardinality(openHandles) <= 1
    /\ \A h \in openHandles :
         /\ h = current_log_file
         /\ Routed >= 1 /\ h.path = NamedFor(sampled[Routed])
    /\ IsOpen(current_log_file) => current_log_file.path = current_log_path

\* C12 as amended: the same, except that between the open of line 88 and the
\* assignment of line 89 current_log_path still holds the path of the handle
\* closed before (or None) while current_log_file is the new handle, open on
\* target_path; and after an open that failed no handle is open at all.
C12_AgreeButBetweenOpenAndAssign ==
  /\ InReadLoop =>
       /\ Cardinality(openHandles) <= 1
       /\ \A h \in openHandles :
            /\ h = current_log_file
            /\ Routed >= 1 /\ h.path = NamedFor(sampled[Routed])
       /\ (IsOpen(current_log_file) /\ pc # "L89") =>
            current_log_file.path = current_log_path
       /\ pc = "L89" =>
            /\ IsOpen(current_log_file)
            /\ current_log_file.path = target_path
            /\ current_log_path # target_path
  /\ ioFail = "open" => openHandles = {}

C12_Witness ==
  /\ pc = "L89" /\ nOpens = 2
  /\ openHandles = {current_log_file}
  /\ current_log_file.path = NamedFor(2)
  /\ current_log_path = NamedFor(1)

\* ---- C13 -----------------------------------------------------------------------
\* The statements reached only after the flush of line 92 has succeeded for the
\* line read last: the echo, the next read and the final wait.
AfterFlushPcs == {"L95", "L96", "L83", "L98"}

\* C13: when the supervisor is about to echo a line, to read the next one or to
\* wait for the child, the line read last and every line before it stand in
\* their files and the handle's buffer is empty; in every state whatsoever the
\* lines before the one being processed stand in their files, the buffer holds
\* at most the line being processed, and a line that was echoed stands in a file.
C13_FlushedBeforeEchoAndRead ==
  /\ pc \in AfterFlushPcs =>
       /\ logBuf = <<>>
       /\ \A k \in 1..nRead : Copies(k) = 1
  /\ \A k \in 1..MaxLines : k < nRead => Copies(k) = 1
  /\ logBuf \in {<<>>, <<nRead>>}
  /\ \A i \in 1..Len(echoed \o echoBuf) : Copies((echoed \o echoBuf)[i]) = 1

C13_Witness ==
  /\ pc = "L95" /\ nRead = 2 /\ sampled = <<1, 2>>
  /\ logBuf = <<>>
  /\ files[NamedFor(1)] = files0[NamedFor(1)] \o <<1>>
  /\ files[NamedFor(2)] = files0[NamedFor(2)] \o <<2>>
  /\ echoed = <<1>>

\* ==== src/src/systemd_installer.py: install_service ================================

\* str.endswith(suffix)
EndsWith(s, suffix) ==
  Len(s) >= Len(suffix) /\ SubSeq(s, Len(s) - Len(suffix) + 1, Len(s)) = suffix

\* lines 107-108
normalize_service_name(service_name) ==
  IF EndsWith(service_name, ".service") THEN service_name
  ELSE service_name \o ".service"

\* The directory get_service_path (lines 177-180) puts the unit file in.
service_dir(user_service) ==
  IF user_service THEN "~/.config/systemd/user" ELSE "/etc/systemd/system"

get_service_path(service_name, user_service) ==
  service_dir(user_service) \o "/" \o service_name

\* lines 143-174, as far as the unit file depends on the configuration
build_service_content(cfg, service_name) ==
  "[Install] WantedBy="
    \o (IF cfg.user_service THEN "default.target" ELSE "multi-user.target")
    \o " # Unit file: " \o service_name

\* config.log_file and its parent directory
log_file == "/srv/recorder/logs/recorder.log"
log_file_parent == "/srv/recorder/logs"

\* lines 284-286
daily_log_pattern == "/srv/recorder/logs/recorder-YYYY-MM-DD.log"

\* lines 186-189: the command line run_systemctl builds
systemctl_command(user_service, args) ==
  <<"systemctl">> \o (IF user_service THEN <<"--user">> ELSE <<>>) \o args

\* An enable that always starts the service at once.
enable_args_alwaysNow(enable_now, service_name) == <<"enable", "--now", service_name>>

\* lines 217-220: the arguments of the enable step
enable_args(enable_now, service_name) ==
  IF enable_now THEN <<"enable", "--now", service_name>>
  ELSE <<"enable", service_name>>

\* lines 204-209: how the dry run prints a command
Shown(user_service, args) ==
  [cmd |-> IF user_service THEN "systemctl --user" ELSE "systemctl", args |-> args]

ServiceNames == {"recorder", "recorder.service"}
OldUnits == {None, "[Install] WantedBy=graphical.target"}

\* The log runner is another program: while the installer runs it is not there.
RunnerAbsent ==
  /\ cmdKind = "ok" /\ echo = FALSE /\ files0 = [p \in Paths |-> <<>>]
  /\ today = 1 /\ dirExists = FALSE
  /\ child = "none" /\ childStatus = 0 /\ childEOF = FALSE /\ emitted = 0
  /\ termSent = FALSE /\ termTarget = None
  /\ pc = "absent" /\ log_extension = None /\ streamOpen = FALSE /\ nRead = 0
  /\ target_path = None /\ current_log_path = None /\ current_log_file = NoFile
  /\ pending = NoPending /\ files = files0 /\ openHandles = {} /\ nOpens = 0
  /\ logBuf = <<>> /\ echoBuf = <<>> /\ echoed = <<>> /\ message = None
  /\ result = [kind |-> "none", code |-> 0]
  /\ sampled = <<>> /\ runExit = "none" /\ ioFail = None
  /\ lifecycle = <<"NotStarted">>

\* install_service is entered with a configuration build_config accepted.
InitInstall ==
  /\ RunnerAbsent
  /\ NormalizerAbsent
  /\ config \in [service_name : ServiceNames, user_service : BOOLEAN,
                 enable_now : BOOLEAN, dry_run : BOOLEAN]
  /\ systemctlPresent \in BOOLEAN
  /\ ipc = "I194"
  /\ dirs \in SUBSET {service_dir(config.user_service), log_file_parent}
  /\ unitFile \in OldUnits
  /\ commandsRun = <<>>
  /\ printed = <<>>
  /\ raised = NoRaise

service_name == normalize_service_name(config.service_name)
service_path == get_service_path(service_name, config.user_service)
service_content == build_service_content(config, service_name)

\* An exception leaves install_service from the statement at the given line.
RaiseAt(exc, line) == raised' = [exc |-> exc, line |-> line] /\ ipc' = "raised"

\* lines 194-198: the three locals are computed, then the branch on dry_run
InstallBegin ==
  /\ ipc = "I194"
  /\ ipc' = IF config.dry_run THEN "I199" ELSE "I212"
  /\ UNCHANGED <<runner, normalizer, config, systemctlPresent, dirs, unitFile, commandsRun,
                 printed, raised>>

\* lines 199-210: the dry run prints the paths, the unit and the two commands
DryRunReport ==
  /\ ipc = "I199"
  /\ printed' = printed \o
       << service_path, log_file, daily_log_pattern, service_content, "Commands:",
          Shown(config.user_service, <<"daemon-reload">>),
          Shown(config.user_service, enable_args(config.enable_now, service_name)) >>
  /\ ipc' = "returned"
  /\ UNCHANGED <<runner, normalizer, config, systemctlPresent, dirs, unitFile, commandsRun, raised>>

\* Path.mkdir(parents=True, exist_ok=True): a directory that exists is left
\* alone; one that does not is created, or the creation is refused.
MkdirAt(dir, line, next) ==
  \/ /\ dirs' = dirs \cup {dir}
     /\ ipc' = next
     /\ UNCHANGED raised
  \/ /\ dir \notin dirs
     /\ RaiseAt("PermissionError", line)
     /\ UNCHANGED dirs

\* line 212: service_path.parent.mkdir(parents=True, exist_ok=True)
MkdirServiceDir ==
  /\ ipc = "I212"
  /\ MkdirAt(service_dir(config.user_service), 212, "I213")
  /\ UNCHANGED <<runner, normalizer, config, systemctlPresent, unitFile, commandsRun, printed>>

\* line 213: config.log_file.parent.mkdir(parents=True, exist_ok=True)
MkdirLogDir ==
  /\ ipc = "I213"
  /\ MkdirAt(log_file_parent, 213, "I214")
  /\ UNCHANGED <<runner, normalizer, config, systemctlPresent, unitFile, commandsRun, printed>>

\* line 214: service_path.write_text(service_content): the unit file is
\* replaced by the new contents, or the write is refused
WriteUnit ==
  /\ ipc = "I214"
  /\ \/ /\ unitFile' = service_content
        /\ ipc' = "I216"
        /\ UNCHANGED raised
     \/ /\ RaiseAt("PermissionError", 214)
        /\ UNCHANGED unitFile
  /\ UNCHANGED <<runner, normalizer, config, systemctlPresent, dirs, commandsRun, printed>>

Ran(command, returncode) == [command |-> command, returncode |-> returncode]

\* lines 183-190, called from the given line: without systemctl on the PATH
\* nothing is run; otherwise the command is run and a non-zero exit status
\* raises CalledProcessError (check=True).
run_systemctl(user_service, args, line, next) ==
  IF ~systemctlPresent
  THEN /\ RaiseAt("FileNotFoundError", line)
       /\ UNCHANGED commandsRun
  ELSE \E returncode \in {0, 1} :
         /\ commandsRun' = Append(commandsRun,
                                  Ran(systemctl_command(user_service, args), returncode))
         /\ IF returncode = 0
            THEN ipc' = next /\ UNCHANGED raised
            ELSE RaiseAt("CalledProcessError", line)

\* line 216: run_systemctl(config.user_service, "daemon-reload")
DaemonReload ==
  /\ ipc = "I216"
  /\ run_systemctl(config.user_service, <<"daemon-reload">>, 216, "I217")
  /\ UNCHANGED <<runner, normalizer, config, systemctlPresent, dirs, unitFile, printed>>

\* lines 217-220: run_systemctl(config.user_service, "enable", ["--now",] service_name)
Enable ==
  /\ ipc = "I217"
  /\ run_systemctl(config.user_service, enable_args(config.enable_now, service_name),
                   IF config.enable_now THEN 218 ELSE 220, "I222")
  /\ UNCHANGED <<runner, normalizer, config, systemctlPresent, dirs, unitFile, printed>>

\* lines 222-228: the report of a finished installation
ReportInstalled ==
  /\ ipc = "I222"
  /\ printed' = printed \o
       << "Installed service: " \o service_path, "Done.",
          Shown(config.user_service, <<"status", service_name>>),
          "Daily logs: " \o daily_log_pattern >>
  /\ ipc' = "returned"
  /\ UNCHANGED <<runner, normalizer, config, systemctlPresent, dirs, unitFile, commandsRun, raised>>

NextInstall ==
  \/ InstallBegin \/ DryRunReport
  \/ MkdirServiceDir \/ MkdirLogDir \/ WriteUnit
  \/ DaemonReload \/ Enable \/ ReportInstalled

SpecInstall == InitInstall /\ [][NextInstall]_vars

\* ---- C14 -----------------------------------------------------------------------
UserFlag == IF config.user_service THEN <<"--user">> ELSE <<>>
ReloadCommand == <<"systemctl">> \o UserFlag \o <<"daemon-reload">>
EnableCommand ==
  <<"systemctl">> \o UserFlag \o <<"enable">>
    \o (IF config.enable_now THEN <<"--now">> ELSE <<>>) \o <<service_name>>

UnitWritten == unitFile = service_content

C14_State ==
  /\ config.dry_run =>
       /\ commandsRun = <<>>
       /\ raised = NoRaise
       /\ ~UnitWritten
       /\ ipc = "returned" => printed # <<>>
  /\ Len(commandsRun) <= 2
  /\ Len(commandsRun) >= 1 =>
       /\ UnitWritten
       /\ {service_dir(config.user_service), log_file_parent} \subseteq dirs
       /\ commandsRun[1].command = ReloadCommand
  /\ Len(commandsRun) = 2 =>
       /\ commandsRun[1].returncode = 0
       /\ commandsRun[2].command = EnableCommand
  /\ raised.line \in {212, 213, 214} => (~UnitWritten /\ commandsRun = <<>>)
  /\ raised.line = 216 => Len(commandsRun) <= 1
  /\ raised.exc = "CalledProcessError" =>
       commandsRun[Len(commandsRun)].returncode # 0
  /\ raised # NoRaise => printed = <<>>
  /\ (ipc = "returned" /\ ~config.dry_run) =>
       /\ Len(commandsRun) = 2
       /\ commandsRun[2].returncode = 0

C14_Step ==
  /\ config.dry_run => UNCHANGED <<dirs, unitFile, commandsRun>>
  /\ raised # NoRaise => UNCHANGED <<dirs, unitFile, commandsRun, printed>>

\* C14: a dry run only prints - no directory is created, the unit file is not
\* written and no systemctl command is run; an installation writes the unit
\* file, then runs daemon-reload, then enable (with --now exactly when
\* enable_now is set), in that order, and a step that fails is the last one taken.
C14_DryRunPrintsInstallInOrder == [](C14_State) /\ [][C14_Step]_vars

C14_Witness ==
  /\ ipc = "returned" /\ ~config.dry_run /\ config.enable_now /\ config.user_service
  /\ config.service_name = "recorder"
  /\ unitFile = "[Install] WantedBy=default.target # Unit file: recorder.service"
  /\ commandsRun =
       << Ran(<<"systemctl", "--user", "daemon-reload">>, 0),
          Ran(<<"systemctl", "--user", "enable", "--now", "recorder.service">>, 0) >>

\* ---- C15 -----------------------------------------------------------------------
\* The open of line 88 failed because the log directory was not there.
OpenFailedForWantOfDir == ioFail = "open" /\ ~dirExists

\* C15: when a target path is opened, the handle held before has been closed
\* and nothing is left in its buffer, and the log directory is created if it is
\* absent at that moment, so an open never fails for want of the directory.
C15_DirectoryRecreatedAtOpen ==
  /\ pc = "L88" => (openHandles = {} /\ logBuf = <<>>)
  /\ ~OpenFailedForWantOfDir

\* ---- C16 -----------------------------------------------------------------------
\* Of the first n lines, those whose sampled date names the file at p, in order.
RoutedTo(p, n) == SelectSeq(UpTo(n), LAMBDA k : NamedFor(sampled[k]) = p)

\* Every file is what it held before the run followed by the lines among the
\* first n that were routed to it, in the order read.
AppendedUpTo(n) == \A p \in Paths : files[p] = files0[p] \o RoutedTo(p, n)

\* C16: in every state of every run - whether it goes on, returns, is
\* interrupted or fails - every log file holds what it held before the run
\* followed by the lines routed to it, in the order read; the line being
\* processed is the only one that can still be missing, and it is not missing
\* once its flush is done or the run has returned the child's status. A file no
\* line was routed to is unchanged.
C16_AppendOnly ==
  /\ \E n \in {nRead - 1, nRead} :
       n >= 0 /\ n <= Len(sampled) /\ AppendedUpTo(n)
  /\ (pc \in AfterFlushPcs \/ ReturnedNormally) => AppendedUpTo(nRead)
  /\ \A p \in Paths :
       (\A k \in 1..Len(sampled) : NamedFor(sampled[k]) # p) => files[p] = files0[p]

C16_Witness ==
  /\ ReturnedNormally /\ sampled = <<2, 1>>
  /\ files0[NamedFor(1)] = <<0>>
  /\ files[NamedFor(2)] = <<0, 1>>
  /\ files[NamedFor(1)] = <<0, 2>>

\* ---- C17 -----------------------------------------------------------------------
\* Whether s is a prefix of t.
IsPrefix(s, t) == Len(s) <= Len(t) /\ s = SubSeq(t, 1, Len(s))

\* The lines of this run that have reached a file, in the order they were
\* flushed: a line is flushed before the next one is read.
Logged == SelectSeq(UpTo(nRead), LAMBDA k : Copies(k) >= 1)

\* C17: what has been written to standard output, flushed or still in its
\* buffer, is a prefix of the lines that have reached the log, in the same
\* order, and with echo enabled lags behind by at most the line being
\* processed; when the run returns the child's status with echo enabled, every
\* line was echoed and logged; with echo disabled nothing is written to
\* standard output.
C17_EchoFollowsLog ==
  /\ IsPrefix(echoed, echoed \o echoBuf)
  /\ IsPrefix(echoed \o echoBuf, Logged)
  /\ echo => Len(Logged) - Len(echoed) <= 1
  /\ (echo /\ ReturnedNormally) => (echoed = UpTo(emitted) /\ Logged = echoed)
  /\ ~echo => (echoed = <<>> /\ echoBuf = <<>>)

C17_Witness ==
  /\ echo /\ pc = "L95" /\ nRead = 2
  /\ echoed = <<1>> /\ echoBuf = <<>>
  /\ Logged = <<1, 2>>

\* ---- C18 -----------------------------------------------------------------------
\* The handler has just been entered from the read of line 83, which was
\* waiting: every line the child has emitted was read, logged and echoed, and
\* the child has not closed its stream.
InterruptedAtRead ==
  /\ pc = "L100"
  /\ lifecycle = <<"NotStarted", "Running", "Interrupted">>
  /\ child = "running" /\ ~childEOF
  /\ nRead = emitted /\ Len(sampled) = nRead /\ logBuf = <<>>
  /\ \A k \in 1..nRead : Copies(k) = 1
  /\ echo => (echoed = UpTo(nRead) /\ echoBuf = <<>>)

Returned130 ==
  /\ pc = "done" /\ result = [kind |-> "returned", code |-> CANCELLED]
  /\ child = "reaped"

\* A further KeyboardInterrupt was raised in the handler or the finally clause.
InterruptedAgain == pending.exc = KI

\* After the interrupt no line is read and the loop is not entered again.
NoReadAfterInterrupt ==
  life \in {"Interrupted", "Terminated"} => (nRead' = nRead /\ pc' \notin LoopPcs)

\* C18: when the interrupt arrives while the read of line 83 waits for the
\* child's next line, the read is left at once, no line is read afterwards, and
\* - the child exiting once it is asked to terminate, and no further interrupt
\* arriving - the run returns 130 with the child reaped, whether or not the
\* child writes anything more.
C18_InterruptUnblocksRead ==
  /\ InterruptedAtRead ~> (Returned130 \/ InterruptedAgain)
  /\ [][NoReadAfterInterrupt]_vars

C18_Witness ==
  /\ Returned130 /\ termSent /\ childStatus = -15
  /\ lifecycle = <<"NotStarted", "Running", "Interrupted", "Terminated">>
  /\ emitted = 1 /\ nRead = 1 /\ Copies(1) = 1

\* ==== normalize_extension on its own ===============================================

\* The characters extensions are made of here.
ExtChars == {".", "l", "o", "g"}

\* Every string of at most n of these characters.
RECURSIVE StringsUpTo(_)
StringsUpTo(n) ==
  IF n = 0 THEN {""}
  ELSE LET shorter == StringsUpTo(n - 1)
       IN  shorter \cup {s \o c : s \in shorter, c \in ExtChars}

InitNormalize ==
  /\ RunnerAbsent
  /\ InstallerAbsent
  /\ extArg \in StringsUpTo(MaxExtLen)
  /\ results = <<>>

\* normalize_extension is called on the argument, then on what it returned.
NormalizeCall ==
  /\ Len(results) < MaxCalls
  /\ results' = Append(results,
                       normalize_extension(IF results = <<>> THEN extArg
                                           ELSE results[Len(results)]))
  /\ UNCHANGED <<runner, installer, extArg>>

NextNormalize == NormalizeCall

SpecNormalize == InitNormalize /\ [][NextNormalize]_vars

\* ---- C19 -----------------------------------------------------------------------
\* C19: the first call returns ".log" for the empty string, the argument itself
\* when its first character is ".", and "." followed by the argument otherwise;
\* what it returns begins with "."; every further call returns what the first did.
C19_NormalizeExtension ==
  Len(results) >= 1 =>
    /\ extArg = "" => results[1] = ".log"
    /\ (extArg # "" /\ SubSeq(extArg, 1, 1) = ".") => results[1] = extArg
    /\ (extArg # "" /\ SubSeq(extArg, 1, 1) # ".") =>
         /\ Len(results[1]) = Len(extArg) + 1
         /\ SubSeq(results[1], 2, Len(results[1])) = extArg
    /\ SubSeq(results[1], 1, 1) = "."
    /\ \A i \in 1..Len(results) : results[i] = results[1]

C19_Witness ==
  /\ extArg = "log"
  /\ results = <<".log", ".log">>

\* ---- C20 -----------------------------------------------------------------------
\* Among the first n lines, the pairs of consecutive lines whose destination
\* paths differ.
PathChanges(n) ==
  Cardinality({i \in 1..(n - 1) : NamedFor(sampled[i]) # NamedFor(sampled[i + 1])})

ExpectedOpens(n) == IF n <= 0 THEN 0 ELSE 1 + PathChanges(n)

\* C20: before the first line is read no log file has been opened or written,
\* so a child that emits nothing leaves none; once the lines read so far have
\* been processed, and when the run returns the child's status after N >= 1
\* lines, the number of opens is one plus the number of consecutive lines whose
\* paths differ; while a line is being processed, or after the run was cut
\* short, the open for that line may not have happened.
C20_LazyOpens ==
  /\ nRead = 0 => (nOpens = 0 /\ openHandles = {} /\ files = files0)
  /\ (emitted = 0 /\ pc = "done") => (nOpens = 0 /\ files = files0)
  /\ (pc \in AfterFlushPcs \/ ReturnedNormally) => nOpens = ExpectedOpens(nRead)
  /\ nOpens \in {ExpectedOpens(Len(sampled) - 1), ExpectedOpens(Len(sampled))}

C20_Witness ==
  /\ ReturnedNormally /\ emitted = 2
  /\ sampled = <<1, 2>>
  /\ nOpens = 2

====
